---- MODULE Spec2Model ----
(***************************************************************************)
(* RAGnos Vault TUF client (env-interceptor/src/python-tuf-client.py) and  *)
(* repository builder (env-interceptor/scripts/init-tuf-repo.py).          *)
(*                                                                         *)
(* One dispatcher invocation (main) is a short-lived process: it reads one *)
(* request, runs initialize, refresh_metadata and the command's operation, *)
(* prints one response and exits.  The only state that survives an         *)
(* invocation is metadata_dir (the persisted TrustState) and targets_dir.  *)
(*                                                                         *)
(* The verification itself is done by the tuf library's Updater, which the *)
(* client only calls (bootstrap, refresh, get_targetinfo, download_target).*)
(* Its behaviour is written here from the design document (sections 4.3 to *)
(* 4.5); every definition whose name starts with Updater_ is of that kind. *)
(***************************************************************************)
EXTENDS Integers, Sequences, FiniteSets, TLC

\* ------------------------------------------------------------ bounds
MaxVersion == 2
MaxLen == 2
MaxByte == 1
MaxRuns == 2

\* ------------------------------------------------------------ universe
Roles == {"root", "targets", "snapshot", "timestamp"}
OnlineRoles == {"targets", "snapshot", "timestamp"}
Keys == {"k1", "k2"}

\* The one path the repository publishes, and a path it never lists.
SamplePath == "plugins/ragnos-labs/sample-test-plugin/index.js"
OtherPath == "plugins/ragnos-labs/sample-test-plugin/other.js"

\* Absent document / absent file / failed fetch.
NoDoc == [type |-> "none"]
NoFile == <<>>
Unavailable == [type |-> "unavailable"]
\* The artifact fetch that fails (no byte string).
FetchFailed == <<-1>>

Versions == 1..MaxVersion
\* The clock reads Clock throughout; a document expires at that instant or
\* after it.
Clock == 1
ExpiryChoices == {Clock, Clock + 1}
Bytes == 0..MaxByte

RECURSIVE ByteSeqs(_)
ByteSeqs(n) ==
    IF n = 0 THEN {<<>>}
    ELSE LET shorter == ByteSeqs(n - 1)
         IN  shorter \cup {Append(s, b) : s \in {t \in shorter : Len(t) = n - 1}, b \in Bytes}

Artifacts == ByteSeqs(MaxLen) \ {<<>>}

\* ------------------------------------------------------------ serialization
RECURSIVE SetToSeq(_)
SetToSeq(S) ==
    IF S = {} THEN <<>>
    ELSE LET x == CHOOSE y \in S : TRUE
         IN  <<x>> \o SetToSeq(S \ {x})

\* hashlib.sha256(bytes).hexdigest(): a digest that is equal exactly when
\* the hashed bytes are equal.
Sha256(bytes) == [alg |-> "sha256", digest |-> bytes]

\* Metadata.to_json(): the signed part followed by the signatures.
to_json(md) ==
    LET head == <<md.type, md.version, md.expires>>
        body == CASE md.type = "targets" ->
                       IF md.targets = NoDoc THEN <<"", 0, Sha256(<<>>)>>
                       ELSE <<SamplePath, md.targets.length, md.targets.hashes>>
                  [] md.type \in {"snapshot", "timestamp"} ->
                       <<md.meta.version, md.meta.length, md.meta.hashes>>
                  [] OTHER -> <<md.keys, md.roles>>
    IN  head \o body \o SetToSeq(md.sigs)

\* ------------------------------------------------------------ documents
\* Role(keyids, threshold): the root role is held by one key, the other
\* roles need both keys.
RootRole == [keyids |-> {"k1"}, threshold |-> 1]
OnlineRole == [keyids |-> {"k1", "k2"}, threshold |-> 2]

\* Signatures a document comes with: none, one key short of the other roles'
\* threshold, or both keys; a root comes unsigned, signed by the root key, or
\* signed only by the key that is not a root key.
SigChoices == {{}, {"k1"}, {"k1", "k2"}}
RootSigChoices == {{}, {"k1"}, {"k2"}}

MkRoot(v, e, r, sigs) ==
    [type |-> "root", version |-> v, expires |-> e,
     keys |-> Keys,
     roles |-> [x \in Roles |-> IF x = "root" THEN r ELSE OnlineRole],
     sigs |-> sigs]

RootDocs == {MkRoot(v, e, RootRole, s) : v \in Versions, e \in ExpiryChoices,
                                         s \in RootSigChoices}

\* Parsed JSON that is not a root of the expected shape.
MalformedRoots ==
    { [MkRoot(1, Clock + 1, [keyids |-> {"k1"}, threshold |-> 1], {"k1"})
          EXCEPT !.keys = {"k2"}],
      MkRoot(1, Clock + 1, [keyids |-> {"k1"}, threshold |-> 0], {"k1"}),
      MkRoot(1, Clock + 1, [keyids |-> {"k1"}, threshold |-> 2], {"k1"}),
      [type |-> "garbage"] }

\* The file named by trusted_root.
MissingFile == [type |-> "missing"]
Unparseable == [type |-> "unparseable"]
\* The root the operator pins has not expired.
PinnedRoots == {d \in RootDocs : d.expires > Clock}
PinnedInputs == {MissingFile, Unparseable} \cup MalformedRoots \cup PinnedRoots

TargetInfo(a) == [length |-> Len(a), hashes |-> Sha256(a)]
\* plugin_content of create_sample_plugin.
SamplePlugin == <<0>>
\* The targets document lists the sample plugin, or lists nothing.
TargetsPayloads == {NoDoc, TargetInfo(SamplePlugin)}

Headers == [version : Versions, expires : ExpiryChoices, sigs : SigChoices]

MkTargets(h, payload) ==
    [type |-> "targets", version |-> h.version, expires |-> h.expires,
     targets |-> payload, sigs |-> h.sigs]

MkMeta(type, h, meta) ==
    [type |-> type, version |-> h.version, expires |-> h.expires,
     meta |-> meta, sigs |-> h.sigs]

\* What a parent declares for a child: its version, length and sha256 as the
\* builder computes them, or a declaration that is off in one of them.
Declarations == {"exact", "length", "hash"}
Declare(child, how) ==
    [version |-> child.version,
     length  |-> Len(to_json(child)) + (IF how = "length" THEN 1 ELSE 0),
     hashes  |-> IF how = "hash" THEN Sha256(Append(to_json(child), "x"))
                 ELSE Sha256(to_json(child))]

\* ------------------------------------------------------------ the tuf Updater
\* Valid signatures by distinct keys that the role declares and the root's
\* keys map holds.
ValidSignatures(md, roleName, root) ==
    Cardinality(md.sigs \cap root.roles[roleName].keyids \cap root.keys)

\* Section 3: threshold >= 1, threshold <= size of the key-id set, every
\* key-id resolves in the keys map.
WellFormedRoot(d) ==
    /\ d.type = "root"
    /\ \A r \in Roles :
         /\ d.roles[r].threshold >= 1
         /\ d.roles[r].threshold <= Cardinality(d.roles[r].keyids)
         /\ d.roles[r].keyids \subseteq d.keys

Updater_threshold_met(md, roleName, root) ==
    ValidSignatures(md, roleName, root) >= root.roles[roleName].threshold

Updater_version_ok(md, trusted_md) ==
    trusted_md = NoDoc \/ md.version >= trusted_md.version

Updater_not_expired(md, clock) == md.expires > clock

Updater_matches(md, declared) ==
    /\ Len(to_json(md)) = declared.length
    /\ Sha256(to_json(md)) = declared.hashes

\* The checks of one refresh step, in the order of section 4.4; "" when the
\* document passes all of them, else the exception raised.
Updater_verify(roleName, md, root, trusted_md, clock, declared) ==
    IF declared # NoDoc /\ ~Updater_matches(md, declared) THEN "InconsistentMetadata"
    ELSE IF ~Updater_threshold_met(md, roleName, root) THEN "UnsignedMetadataError"
    ELSE IF ~Updater_version_ok(md, trusted_md) THEN "BadVersionNumberError"
    ELSE IF ~Updater_not_expired(md, clock) THEN "ExpiredMetadataError"
    ELSE ""

\* Section 4.3: the pinned root is accepted when it has the expected shape
\* and meets its own root threshold; it creates the TrustState when there is
\* none and never replaces a persisted one.
Updater_bootstrap(root_data, dir) ==
    IF ~WellFormedRoot(root_data) THEN [exc |-> "MalformedRoot", dir |-> dir]
    ELSE IF ~Updater_threshold_met(root_data, "root", root_data)
         THEN [exc |-> "UntrustedRoot", dir |-> dir]
    ELSE IF dir["root"] = NoDoc
         THEN [exc |-> "", dir |-> [dir EXCEPT !["root"] = root_data]]
    ELSE [exc |-> "", dir |-> dir]

\* A newer root is advertised when the repository serves a root whose version
\* is not the trusted one.
Updater_root_advertised(offer, dir) ==
    offer # NoDoc /\ offer.version # dir["root"].version

\* Section 4.4: timestamp, snapshot, targets, then root; the first failure
\* aborts, and only a refresh that passes every step is persisted.
\* step is the role at which the refresh stopped ("" when it went through).
Updater_refresh(dir, o, clock) ==
    LET root == dir["root"]
        fail(step, exc) == [exc |-> exc, step |-> step, dir |-> dir]
        e1 == IF o.timestamp = Unavailable THEN "TransportError"
              ELSE Updater_verify("timestamp", o.timestamp, root,
                                  dir["timestamp"], clock, NoDoc)
        e2 == IF o.snapshot = Unavailable THEN "TransportError"
              ELSE Updater_verify("snapshot", o.snapshot, root,
                                  dir["snapshot"], clock, o.timestamp.meta)
        e3 == IF o.targets = Unavailable THEN "TransportError"
              ELSE Updater_verify("targets", o.targets, root,
                                  dir["targets"], clock, o.snapshot.meta)
        e4 == IF ~Updater_root_advertised(o.root, dir) THEN ""
              ELSE Updater_verify("root", o.root, o.root, root, clock, NoDoc)
    IN  IF e1 # "" THEN fail("timestamp", e1)
        ELSE IF e2 # "" THEN fail("snapshot", e2)
        ELSE IF e3 # "" THEN fail("targets", e3)
        ELSE IF e4 # "" THEN fail("root", e4)
        ELSE [exc |-> "", step |-> "",
              dir |-> [timestamp |-> o.timestamp, snapshot |-> o.snapshot,
                       targets |-> o.targets,
                       root |-> IF Updater_root_advertised(o.root, dir)
                                THEN o.root ELSE root]]

\* Section 4.5: the entry of the trusted targets document, or NoDoc.
Updater_get_targetinfo(dir, target_path) ==
    IF dir["targets"] # NoDoc /\ target_path = SamplePath
    THEN dir["targets"].targets
    ELSE NoDoc

\* Section 4.5: the fetched bytes are kept only when both their length and
\* their digest match the trusted entry.
Updater_artifact_ok(target_info, fetched) ==
    /\ Len(fetched) = target_info.length
    /\ Sha256(fetched) = target_info.hashes

Updater_download_target(target_info, fetched, file) ==
    IF fetched = FetchFailed THEN [exc |-> "TransportError", file |-> file]
    ELSE IF ~Updater_artifact_ok(target_info, fetched)
         THEN [exc |-> "VerificationFailed", file |-> file]
    ELSE [exc |-> "", file |-> fetched]

\* ------------------------------------------------------------ PythonTUFClient
\* The dict a client method returns.
Ok(data) == [ok |-> TRUE, error |-> "", error_type |-> "", data |-> data]
Err(message, error_type) ==
    [ok |-> FALSE, error |-> message, error_type |-> error_type, data |-> NoDoc]
NotRun == Err("<not called>", "")

\* initialize() that starts the TrustState over from the root every time.
initialize_restarts(pinned, dir) ==
    IF pinned = MissingFile
    THEN [result |-> Err("Trusted root not found", ""), dir |-> dir, updater |-> "None"]
    ELSE IF pinned = Unparseable
    THEN [result |-> Err("TUF client initialization failed", "JSONDecodeError"),
          dir |-> dir, updater |-> "None"]
    ELSE LET b == Updater_bootstrap(pinned, dir)
         IN  IF b.exc # ""
             THEN [result |-> Err("TUF client initialization failed", b.exc),
                   dir |-> b.dir, updater |-> "Updater"]
             ELSE [result |-> Ok(NoDoc),
                   dir |-> [r \in Roles |-> IF r = "root" THEN b.dir[r] ELSE NoDoc],
                   updater |-> "Updater"]

\* initialize() that installs the pinned root over whatever is persisted.
initialize_repins(pinned, dir) ==
    IF pinned = MissingFile
    THEN [result |-> Err("Trusted root not found", ""), dir |-> dir, updater |-> "None"]
    ELSE IF pinned = Unparseable
    THEN [result |-> Err("TUF client initialization failed", "JSONDecodeError"),
          dir |-> dir, updater |-> "None"]
    ELSE LET b == Updater_bootstrap(pinned, dir)
         IN  IF b.exc # ""
             THEN [result |-> Err("TUF client initialization failed", b.exc),
                   dir |-> b.dir, updater |-> "Updater"]
             ELSE [result |-> Ok(NoDoc), dir |-> [b.dir EXCEPT !["root"] = pinned],
                   updater |-> "Updater"]

\* initialize(): the result, the metadata_dir it leaves and self.updater.
initialize(pinned, dir) ==
    IF pinned = MissingFile
    THEN [result |-> Err("Trusted root not found", ""), dir |-> dir, updater |-> "None"]
    ELSE IF pinned = Unparseable
    THEN [result |-> Err("TUF client initialization failed", "JSONDecodeError"),
          dir |-> dir, updater |-> "None"]
    ELSE LET b == Updater_bootstrap(pinned, dir)
         IN  IF b.exc # ""
             THEN [result |-> Err("TUF client initialization failed", b.exc),
                   dir |-> b.dir, updater |-> "Updater"]
             ELSE [result |-> Ok(NoDoc), dir |-> b.dir, updater |-> "Updater"]

\* refresh_metadata() without its except BadVersionNumberError clause.
refresh_error_no_rollback(exc) ==
    CASE exc = "ExpiredMetadataError"  -> Err("Expired metadata detected", "ExpiredMetadata")
      [] exc = "UnsignedMetadataError" -> Err("Invalid signature detected", "InvalidSignature")
      [] OTHER                         -> Err("Metadata refresh failed", exc)

\* refresh_metadata() without its except UnsignedMetadataError clause.
refresh_error_no_unsigned(exc) ==
    CASE exc = "ExpiredMetadataError"  -> Err("Expired metadata detected", "ExpiredMetadata")
      [] exc = "BadVersionNumberError" -> Err("Rollback attack detected", "RollbackAttack")
      [] OTHER                         -> Err("Metadata refresh failed", exc)

\* refresh_metadata() without its except ExpiredMetadataError clause.
refresh_error_no_expired(exc) ==
    CASE exc = "UnsignedMetadataError" -> Err("Invalid signature detected", "InvalidSignature")
      [] exc = "BadVersionNumberError" -> Err("Rollback attack detected", "RollbackAttack")
      [] OTHER                         -> Err("Metadata refresh failed", exc)

\* refresh_metadata() whose last except clause reports a fixed error_type.
refresh_error_fixed_type(exc) ==
    CASE exc = "ExpiredMetadataError"  -> Err("Expired metadata detected", "ExpiredMetadata")
      [] exc = "UnsignedMetadataError" -> Err("Invalid signature detected", "InvalidSignature")
      [] exc = "BadVersionNumberError" -> Err("Rollback attack detected", "RollbackAttack")
      [] OTHER                         -> Err("Metadata refresh failed", "Exception")

\* The except clauses of refresh_metadata().
refresh_error(exc) ==
    CASE exc = "ExpiredMetadataError"  -> Err("Expired metadata detected", "ExpiredMetadata")
      [] exc = "UnsignedMetadataError" -> Err("Invalid signature detected", "InvalidSignature")
      [] exc = "BadVersionNumberError" -> Err("Rollback attack detected", "RollbackAttack")
      [] OTHER                         -> Err("Metadata refresh failed", exc)

\* refresh_metadata() that leaves behind the timestamp of a refresh that
\* failed after it.
refresh_metadata_partial(updater, dir, o, clock) ==
    IF updater = "None"
    THEN [result |-> Err("TUF client not initialized", ""), dir |-> dir, step |-> ""]
    ELSE LET r == Updater_refresh(dir, o, clock)
         IN  IF r.exc # ""
             THEN [result |-> refresh_error(r.exc),
                   dir |-> IF r.step = "timestamp" THEN r.dir
                           ELSE [r.dir EXCEPT !["timestamp"] = o.timestamp],
                   step |-> r.step]
             ELSE [result |-> Ok([refreshed |-> TRUE]), dir |-> r.dir, step |-> ""]

\* refresh_metadata() that keeps the root served with a refresh whatever the
\* root step said about it.
refresh_metadata_adopts(updater, dir, o, clock) ==
    IF updater = "None"
    THEN [result |-> Err("TUF client not initialized", ""), dir |-> dir, step |-> ""]
    ELSE LET r == Updater_refresh(dir, o, clock)
             kept == IF r.step \in {"", "root"} /\ o.root # NoDoc
                     THEN [r.dir EXCEPT !["root"] = o.root]
                     ELSE r.dir
         IN  IF r.exc # ""
             THEN [result |-> refresh_error(r.exc), dir |-> kept, step |-> r.step]
             ELSE [result |-> Ok([refreshed |-> TRUE]), dir |-> kept, step |-> ""]

\* refresh_metadata() that has the snapshot compared with the declaration of
\* the timestamp already persisted, not with the one just fetched.
refresh_metadata_persisted(updater, dir, o, clock) ==
    IF updater = "None"
    THEN [result |-> Err("TUF client not initialized", ""), dir |-> dir, step |-> ""]
    ELSE LET seen == IF o.timestamp # Unavailable /\ dir["timestamp"] # NoDoc
                     THEN [o EXCEPT !.timestamp.meta = dir["timestamp"].meta]
                     ELSE o
             r == Updater_refresh(dir, seen, clock)
         IN  IF r.exc # ""
             THEN [result |-> refresh_error(r.exc), dir |-> r.dir, step |-> r.step]
             ELSE [result |-> Ok([refreshed |-> TRUE]), dir |-> r.dir, step |-> ""]

\* refresh_metadata() that takes the targets document although the refresh
\* stopped before it.
refresh_metadata_skips(updater, dir, o, clock) ==
    IF updater = "None"
    THEN [result |-> Err("TUF client not initialized", ""), dir |-> dir, step |-> ""]
    ELSE LET r == Updater_refresh(dir, o, clock)
         IN  IF r.exc # ""
             THEN [result |-> refresh_error(r.exc),
                   dir |-> IF r.step = "targets" /\ o.targets # Unavailable
                           THEN [r.dir EXCEPT !["targets"] = o.targets]
                           ELSE r.dir,
                   step |-> r.step]
             ELSE [result |-> Ok([refreshed |-> TRUE]), dir |-> r.dir, step |-> ""]

refresh_metadata(updater, dir, o, clock) ==
    IF updater = "None"
    THEN [result |-> Err("TUF client not initialized", ""), dir |-> dir, step |-> ""]
    ELSE LET r == Updater_refresh(dir, o, clock)
         IN  IF r.exc # ""
             THEN [result |-> refresh_error(r.exc), dir |-> r.dir, step |-> r.step]
             ELSE [result |-> Ok([refreshed |-> TRUE]), dir |-> r.dir, step |-> ""]

\* verify_and_download_target() that takes the download for verified.
verify_and_download_target_unchecked(updater, dir, target_path, fetched, file) ==
    IF updater = "None"
    THEN [result |-> Err("TUF client not initialized", ""), file |-> file, fetches |-> 0]
    ELSE LET target_info == Updater_get_targetinfo(dir, target_path)
         IN  IF target_info = NoDoc
             THEN [result |-> Err("Target not found", ""), file |-> file, fetches |-> 0]
             ELSE IF fetched = FetchFailed
             THEN [result |-> Err("Target verification failed", "TransportError"),
                   file |-> file, fetches |-> 1]
             ELSE [result |-> Ok([target_path |-> target_path,
                                  length |-> Len(fetched),
                                  hashes |-> target_info.hashes,
                                  verified |-> TRUE,
                                  content |-> fetched]),
                   file |-> fetched, fetches |-> 1]

\* verify_and_download_target(): the result, the file it leaves at
\* targets_dir / target_path, and whether the artifact was fetched.
verify_and_download_target(updater, dir, target_path, fetched, file) ==
    IF updater = "None"
    THEN [result |-> Err("TUF client not initialized", ""), file |-> file, fetches |-> 0]
    ELSE LET target_info == Updater_get_targetinfo(dir, target_path)
         IN  IF target_info = NoDoc
             THEN [result |-> Err("Target not found", ""), file |-> file, fetches |-> 0]
             ELSE LET d == Updater_download_target(target_info, fetched, file)
                  IN  IF d.exc # ""
                      THEN [result |-> Err("Target verification failed", d.exc),
                            file |-> d.file, fetches |-> 1]
                      ELSE IF d.file = NoFile
                      THEN [result |-> Err("Downloaded target not found", ""),
                            file |-> d.file, fetches |-> 1]
                      ELSE [result |-> Ok([target_path |-> target_path,
                                           length |-> Len(d.file),
                                           hashes |-> target_info.hashes,
                                           verified |-> TRUE,
                                           content |-> d.file]),
                            file |-> d.file, fetches |-> 1]

list_targets(updater, dir) ==
    IF updater = "None" THEN Err("TUF client not initialized", "")
    ELSE IF dir["targets"] = NoDoc
    THEN Err("Failed to list targets", "AttributeError")
    ELSE Ok([targets |-> IF dir["targets"].targets = NoDoc THEN {}
                         ELSE {[path |-> SamplePath,
                                length |-> dir["targets"].targets.length,
                                hashes |-> dir["targets"].targets.hashes]},
             count |-> IF dir["targets"].targets = NoDoc THEN 0 ELSE 1])

\* ------------------------------------------------------------ main
\* The response line.
Success(data) == [ok |-> TRUE, data |-> data, error |-> NoDoc]
Failure(code, message) ==
    [ok |-> FALSE, data |-> NoDoc, error |-> [code |-> code, message |-> message]]
NoResponse == [ok |-> FALSE, data |-> NoDoc, error |-> NoDoc]

\* The words main's exit-code chain looks for, per error code.
CodeWords(code) ==
    CASE code = "PY_TUF_INVALID_ARGS"    -> {"INVALID_ARGS"}
      [] code = "PY_TUF_INIT_FAILED"     -> {"INIT"}
      [] code = "PY_TUF_REFRESH_FAILED"  -> {"REFRESH"}
      [] code = "PY_TUF_DOWNLOAD_FAILED" -> {"DOWNLOAD"}
      [] OTHER                           -> {}

\* The exit-code chain without its VERIFY / DOWNLOAD branch.
exit_code_of_no_download(result) ==
    IF result.ok THEN 0
    ELSE LET words == IF result.error = NoDoc THEN {} ELSE CodeWords(result.error.code)
         IN  IF "INVALID_ARGS" \in words THEN 10
             ELSE IF words \cap {"REPO", "INIT", "REFRESH"} # {} THEN 20
             ELSE 50

\* The exit-code chain without the REFRESH branch.
exit_code_of_no_refresh(result) ==
    IF result.ok THEN 0
    ELSE LET words == IF result.error = NoDoc THEN {} ELSE CodeWords(result.error.code)
         IN  IF "INVALID_ARGS" \in words THEN 10
             ELSE IF words \cap {"REPO", "INIT"} # {} THEN 20
             ELSE IF words \cap {"VERIFY", "DOWNLOAD"} # {} THEN 30
             ELSE 50

\* Exit with appropriate code.
exit_code_of(result) ==
    IF result.ok THEN 0
    ELSE LET words == IF result.error = NoDoc THEN {} ELSE CodeWords(result.error.code)
         IN  IF "INVALID_ARGS" \in words THEN 10
             ELSE IF words \cap {"REPO", "INIT", "REFRESH"} # {} THEN 20
             ELSE IF words \cap {"VERIFY", "DOWNLOAD"} # {} THEN 30
             ELSE 50

\* ------------------------------------------------------------ state
VARIABLES
    now,            \* the wall clock
    metadata_dir,   \* persisted TrustState: role -> latest trusted document
    targets_dir,    \* the file at targets_dir / SamplePath
    pc,             \* where the invocation stands
    command,        \* request["command"]
    target,         \* target_path, which only the download branch reads
    required,       \* all([repo_url, metadata_dir, targets_dir, trusted_root])
    updater,        \* client.updater
    root_data,      \* what initialize() read from trusted_root
    init_result,    \* what initialize() returned in this invocation
    refresh_result, \* what refresh_metadata() returned
    op_result,      \* what verify_and_download_target() / list_targets() returned
    offered,        \* the documents the repository served to updater.refresh()
    stopped_at,     \* the role at which updater.refresh() stopped ("" if at none)
    artifact,       \* the bytes served for the requested target
    fetches,        \* artifacts fetched in this invocation
    result,         \* main's result
    stdout,         \* response lines printed by this invocation
    exit_code,      \* the process's exit status (-1 while it runs)
    \* the repository builder (init-tuf-repo.py)
    bpc,            \* where the builder run stands: <<method, step>>
    run,            \* which run of the builder over the directory this is
    self_keys,      \* self.keys: role -> key id generated in this run
    plugin_info,    \* what create_sample_plugin returned
    built,          \* the Metadata objects this run holds in memory
    repo_metadata,  \* the files of tuf-staging/metadata
    \* dispatcher invocations that run at the same time over one metadata_dir
    procs           \* invocation -> where it stands and what it holds in memory

vars == <<now, metadata_dir, targets_dir, pc, command, target, required, updater,
          root_data, init_result, refresh_result, op_result, offered,
          stopped_at, artifact, fetches, result, stdout, exit_code,
          bpc, run, self_keys, plugin_info, built, repo_metadata, procs>>

\* The client's variables and the builder's.
client == <<now, metadata_dir, targets_dir, pc, command, target, required, updater,
            root_data, init_result, refresh_result, op_result, offered,
            stopped_at, artifact, fetches, result, stdout, exit_code>>
builder == <<bpc, run, self_keys, plugin_info, built, repo_metadata>>

disk == <<metadata_dir, targets_dir>>
locals == <<command, target, required, updater, root_data, init_result, refresh_result,
            op_result, offered, stopped_at, artifact, fetches>>

\* Nothing served.
NoOffer == [timestamp |-> Unavailable, snapshot |-> Unavailable,
            targets |-> Unavailable, root |-> NoDoc, republished |-> FALSE]

Commands == {"test", "init", "bootstrap", "refresh", "download", "list", "frobnicate"}
RequestedTargets == {"", SamplePath, OtherPath}

\* ------------------------------------------------------------ the builder's documents
\* The builder is run over its directory up to MaxRuns times.
Runs == 1..MaxRuns

\* expiry_config, in days.
expiry_config == [root |-> 90, targets |-> 30, snapshot |-> 14, timestamp |-> 1]

\* datetime.now() of a run: the runs happen on successive days.
Today(n) == n

\* generate_ed25519_key(): a fresh key for every role in every run.
generate_ed25519_key(n, role) == <<n, role>>

\* The order in which run() creates the metadata.
BuildOrder == <<"root", "targets", "snapshot", "timestamp">>
Position(role) == CHOOSE i \in 1..4 : BuildOrder[i] = role
Upstream(role) == {BuildOrder[i] : i \in 1..(Position(role) - 1)}
Downstream(role) == {BuildOrder[i] : i \in (Position(role) + 1)..4}

\* A file of the metadata directory: {role}.json (version 0 here) or
\* {version}.{role}.json.
LatestFile(role) == <<role, 0>>
VersionedFile(version, role) == <<role, version>>
MetadataFiles == {LatestFile(r) : r \in Roles} \cup {VersionedFile(1, r) : r \in Roles}

\* A file that open(path, 'w') has truncated and whose content has not been
\* written out yet.
Truncated == [type |-> "truncated"]
IsDocument(content) == content \notin {NoDoc, Truncated}

\* create_root_metadata whose keys dictionary leaves out the key of the
\* timestamp role.
BuildRoot_unlisted(ks, day) ==
    [type |-> "root", version |-> 1, expires |-> day + expiry_config.root,
     keys |-> {ks[r] : r \in Roles \ {"timestamp"}},
     roles |-> [r \in Roles |-> [keyids |-> {ks[r]}, threshold |-> 1]],
     sigs |-> {ks["root"]}]

\* create_root_metadata that signs with the signer of the targets role.
BuildRoot_missigned(ks, day) ==
    [type |-> "root", version |-> 1, expires |-> day + expiry_config.root,
     keys |-> {ks[r] : r \in Roles},
     roles |-> [r \in Roles |-> [keyids |-> {ks[r]}, threshold |-> 1]],
     sigs |-> {ks["targets"]}]

\* The Metadata object each create_*_metadata builds and signs.
BuildRoot(ks, day) ==
    [type |-> "root", version |-> 1, expires |-> day + expiry_config.root,
     keys |-> {ks[r] : r \in Roles},
     roles |-> [r \in Roles |-> [keyids |-> {ks[r]}, threshold |-> 1]],
     sigs |-> {ks["root"]}]

BuildTargets(ks, day, info) ==
    [type |-> "targets", version |-> 1, expires |-> day + expiry_config.targets,
     targets |-> info, sigs |-> {ks["targets"]}]

\* create_snapshot_metadata that measures the targets document before it
\* was signed.
BuildSnapshot_unsigned(ks, day, targets_metadata) ==
    [type |-> "snapshot", version |-> 1, expires |-> day + expiry_config.snapshot,
     meta |-> Declare([targets_metadata EXCEPT !.sigs = {}], "exact"),
     sigs |-> {ks["snapshot"]}]

BuildSnapshot(ks, day, targets_metadata) ==
    [type |-> "snapshot", version |-> 1, expires |-> day + expiry_config.snapshot,
     meta |-> Declare(targets_metadata, "exact"), sigs |-> {ks["snapshot"]}]

BuildTimestamp(ks, day, snapshot_metadata) ==
    [type |-> "timestamp", version |-> 1, expires |-> day + expiry_config.timestamp,
     meta |-> Declare(snapshot_metadata, "exact"), sigs |-> {ks["timestamp"]}]

\* self.keys = {} and no Metadata object yet.
NoKey == <<>>
NoKeys == [r \in Roles |-> NoKey]
NothingBuilt == [r \in Roles |-> NoDoc]

\* Before the first run: an empty directory.
BuilderInit ==
    /\ bpc = <<"initialize_repository", "">>
    /\ run = 1
    /\ self_keys = NoKeys
    /\ plugin_info = NoDoc
    /\ built = NothingBuilt
    /\ repo_metadata = [f \in MetadataFiles |-> NoDoc]

\* ------------------------------------------------------------ concurrent invocations
Invocations == {1, 2}

\* An invocation that has not started: no client, nothing in memory.
NotStarted == [pc |-> "idle", view |-> [r \in Roles |-> NoDoc], todo |-> <<>>,
               ok |-> FALSE]

Init ==
    /\ BuilderInit
    /\ procs = [p \in Invocations |-> NotStarted]
    /\ now = Clock
    /\ metadata_dir = [r \in Roles |-> NoDoc]
    /\ targets_dir = NoFile
    /\ pc = "idle"
    /\ command = ""
    /\ target = ""
    /\ required = FALSE
    /\ updater = "None"
    /\ root_data = NoDoc
    /\ init_result = NotRun
    /\ refresh_result = NotRun
    /\ op_result = NotRun
    /\ offered = NoOffer
    /\ stopped_at = ""
    /\ artifact = NoFile
    /\ fetches = 0
    /\ result = NoResponse
    /\ stdout = 0
    /\ exit_code = -1

\* print(json.dumps(result)) and the exit-code chain that ends main.
Finish(res) ==
    /\ result' = res
    /\ stdout' = stdout + 1
    /\ exit_code' = exit_code_of(res)
    /\ pc' = "exited"

\* sys.exit(code) from inside the try block: nothing more is printed.
ExitNow(res, printed, code) ==
    /\ result' = res
    /\ stdout' = stdout + printed
    /\ exit_code' = code
    /\ pc' = "exited"

\* A new process starts with empty memory.
Fresh ==
    /\ updater' = "None"
    /\ root_data' = NoDoc
    /\ init_result' = NotRun
    /\ refresh_result' = NotRun
    /\ op_result' = NotRun
    /\ offered' = NoOffer
    /\ stopped_at' = ""
    /\ artifact' = NoFile
    /\ fetches' = 0

\* The import guard: python-tuf cannot be imported.
ImportError ==
    /\ pc = "idle"
    /\ Fresh
    /\ command' = "" /\ target' = "" /\ required' = FALSE
    /\ ExitNow([ok |-> FALSE, data |-> NoDoc,
                error |-> [text |-> "Missing python-tuf dependency"]], 1, 1)
    /\ UNCHANGED <<builder, procs, now, disk>>

\* main with command-line arguments: the legacy mode.
LegacyMode ==
    /\ pc = "idle"
    /\ Fresh
    /\ command' = "" /\ target' = "" /\ required' = FALSE
    /\ Finish(Failure("PY_TUF_INVALID_ARGS", "Use NDJSON stdin interface"))
    /\ UNCHANGED <<builder, procs, now, disk>>

\* stdin holds no line, a line that is not JSON, or JSON that is not an object.
BadInput ==
    /\ pc = "idle"
    /\ Fresh
    /\ command' = "" /\ target' = "" /\ required' = FALSE
    /\ \/ ExitNow(Failure("PY_TUF_NO_INPUT", "No input received"), 1, 10)
       \/ ExitNow(Failure("PY_TUF_BAD_JSON", "Invalid JSON input"), 0, 10)
       \/ ExitNow(Failure("PY_TUF_INTERNAL", "Internal error"), 0, 50)
    /\ UNCHANGED <<builder, procs, now, disk>>

\* As ReadRequest, but without the check of the required parameters.
ReadRequest_unchecked ==
    /\ pc = "idle"
    /\ Fresh
    /\ \E c \in Commands, has_params \in BOOLEAN, t \in RequestedTargets :
         /\ command' = c
         /\ target' = IF c = "download" /\ has_params THEN t ELSE ""
         /\ required' = has_params
         /\ IF c = "test"
            THEN ExitNow(Success([available |-> TRUE]), 1, 0)
            ELSE IF c = "download" /\ t = ""
            THEN Finish(Failure("PY_TUF_INVALID_ARGS", "Target path required for download"))
            ELSE IF c \in {"init", "refresh", "download", "list"}
            THEN /\ pc' = "initialize"
                 /\ UNCHANGED <<result, stdout, exit_code>>
            ELSE Finish(Failure("PY_TUF_UNKNOWN_COMMAND", "Unknown command"))
    /\ UNCHANGED <<builder, procs, now, disk>>

\* As ReadRequest, but the command bootstrap is dispatched too.
ReadRequest_bootstrap ==
    /\ pc = "idle"
    /\ Fresh
    /\ \E c \in Commands, has_params \in BOOLEAN, t \in RequestedTargets :
         /\ command' = c
         /\ target' = IF c = "download" /\ has_params THEN t ELSE ""
         /\ required' = has_params
         /\ IF c = "test"
            THEN ExitNow(Success([available |-> TRUE]), 1, 0)
            ELSE IF ~has_params
            THEN ExitNow(Failure("PY_TUF_INVALID_ARGS", "Missing required parameters"), 1, 10)
            ELSE IF c = "download" /\ t = ""
            THEN Finish(Failure("PY_TUF_INVALID_ARGS", "Target path required for download"))
            ELSE IF c \in {"init", "bootstrap", "refresh", "download", "list"}
            THEN /\ pc' = "initialize"
                 /\ UNCHANGED <<result, stdout, exit_code>>
            ELSE Finish(Failure("PY_TUF_UNKNOWN_COMMAND", "Unknown command"))
    /\ UNCHANGED <<builder, procs, now, disk>>

\* main reads a request object, answers test, checks the parameters and
\* dispatches on the command.
ReadRequest ==
    /\ pc = "idle"
    /\ Fresh
    /\ \E c \in Commands, has_params \in BOOLEAN, t \in RequestedTargets :
         /\ command' = c
         /\ target' = IF c = "download" /\ has_params THEN t ELSE ""
         /\ required' = has_params
         /\ IF c = "test"
            THEN ExitNow(Success([available |-> TRUE]), 1, 0)
            ELSE IF ~has_params
            THEN ExitNow(Failure("PY_TUF_INVALID_ARGS", "Missing required parameters"), 1, 10)
            ELSE IF c = "download" /\ t = ""
            THEN Finish(Failure("PY_TUF_INVALID_ARGS", "Target path required for download"))
            ELSE IF c \in {"init", "refresh", "download", "list"}
            THEN /\ pc' = "initialize"
                 /\ UNCHANGED <<result, stdout, exit_code>>
            ELSE Finish(Failure("PY_TUF_UNKNOWN_COMMAND", "Unknown command"))
    /\ UNCHANGED <<builder, procs, now, disk>>

\* client.initialize() looks at the file named by trusted_root.
ReadTrustedRoot ==
    /\ pc = "initialize"
    /\ \E pinned \in PinnedInputs : root_data' = pinned
    /\ pc' = "bootstrap"
    /\ UNCHANGED <<builder, procs, now, disk, command, target, required, updater, init_result,
                   refresh_result, op_result, offered, stopped_at, artifact,
                   fetches, result, stdout, exit_code>>

\* main going on to the refresh although client.initialize() failed.
Initialize_continues ==
    /\ pc = "bootstrap"
    /\ LET i == initialize(root_data, metadata_dir)
       IN  /\ init_result' = i.result
           /\ metadata_dir' = i.dir
           /\ updater' = i.updater
           /\ IF command = "init"
              THEN IF i.result.ok THEN Finish(Success(i.result))
                   ELSE Finish(Failure("PY_TUF_INIT_FAILED", i.result.error))
              ELSE /\ pc' = "refresh"
                   /\ UNCHANGED <<result, stdout, exit_code>>
    /\ root_data' = NoDoc
    /\ UNCHANGED <<builder, procs, now, targets_dir, command, target, required, refresh_result, op_result,
                   offered, stopped_at, artifact, fetches>>

\* The rest of client.initialize() and main's handling of its result.
Initialize ==
    /\ pc = "bootstrap"
    /\ LET i == initialize(root_data, metadata_dir)
       IN  /\ init_result' = i.result
           /\ metadata_dir' = i.dir
           /\ updater' = i.updater
           /\ IF ~i.result.ok
              THEN Finish(Failure("PY_TUF_INIT_FAILED", i.result.error))
              ELSE IF command = "init"
              THEN Finish(Success(i.result))
              ELSE /\ pc' = "refresh"
                   /\ UNCHANGED <<result, stdout, exit_code>>
    /\ root_data' = NoDoc
    /\ UNCHANGED <<builder, procs, now, targets_dir, command, target, required, refresh_result, op_result,
                   offered, stopped_at, artifact, fetches>>

\* What the repository (or whoever answers for it) serves to one refresh.
HeaderOffers == Headers \cup {Unavailable}
RootOffers == {NoDoc} \cup RootDocs
NoMeta == [version |-> 0, length |-> 0, hashes |-> Sha256(<<>>)]

MetaOffer(type, h, meta) == IF h = Unavailable THEN Unavailable ELSE MkMeta(type, h, meta)
TargetsOffer(h, payload) == IF h = Unavailable THEN Unavailable ELSE MkTargets(h, payload)
DeclareOffer(child, how) == IF child = Unavailable THEN NoMeta ELSE Declare(child, how)

\* The chain served: each parent declares the child served with it.
Offer(th, how1, sh, how2, gh, payload, ro) ==
    LET tg == TargetsOffer(gh, payload)
        ss == MetaOffer("snapshot", sh, DeclareOffer(tg, how2))
        ts == MetaOffer("timestamp", th, DeclareOffer(ss, how1))
    IN  [timestamp |-> ts, snapshot |-> ss, targets |-> tg, root |-> ro,
         republished |-> FALSE]

\* As Refreshed, but a failed refresh is reported as a warning inside a
\* successful response.
Refreshed_warns(r, o) ==
        /\ refresh_result' = r.result
        /\ metadata_dir' = r.dir
        /\ offered' = o
        /\ stopped_at' = r.step
        /\ IF ~r.result.ok /\ command = "refresh"
           THEN Finish(Success([refreshed |-> FALSE, warning |-> r.result.error]))
           ELSE IF ~r.result.ok
           THEN Finish(Failure("PY_TUF_REFRESH_FAILED", r.result.error))
           ELSE IF command = "refresh"
           THEN Finish(Success([refreshed |-> TRUE]))
           ELSE /\ pc' = "operation"
                /\ UNCHANGED <<result, stdout, exit_code>>

\* main's handling of a refresh result that tries the refresh again when a
\* document could not be fetched.
Refreshed_retries(r, o) ==
        /\ refresh_result' = r.result
        /\ metadata_dir' = r.dir
        /\ offered' = o
        /\ stopped_at' = r.step
        /\ IF ~r.result.ok /\ r.result.error_type = "TransportError"
           THEN /\ pc' = "refresh"
                /\ UNCHANGED <<result, stdout, exit_code>>
           ELSE IF ~r.result.ok
           THEN Finish(Failure("PY_TUF_REFRESH_FAILED", r.result.error))
           ELSE IF command = "refresh"
           THEN Finish(Success([refreshed |-> TRUE]))
           ELSE /\ pc' = "operation"
                /\ UNCHANGED <<result, stdout, exit_code>>

\* main's handling of what client.refresh_metadata() returned on the chain o.
Refreshed(r, o) ==
        /\ refresh_result' = r.result
        /\ metadata_dir' = r.dir
        /\ offered' = o
        /\ stopped_at' = r.step
        /\ IF ~r.result.ok
           THEN Finish(Failure("PY_TUF_REFRESH_FAILED", r.result.error))
           ELSE IF command = "refresh"
           THEN Finish(Success([refreshed |-> TRUE]))
           ELSE /\ pc' = "operation"
                /\ UNCHANGED <<result, stdout, exit_code>>

RefreshOn(o) == refresh_metadata(updater, metadata_dir, o, now)

\* The repository has published nothing since the trusted documents were
\* accepted: it serves them again, with the trusted root or none.
Republished(dir) ==
    {[timestamp |-> dir["timestamp"], snapshot |-> dir["snapshot"],
      targets |-> dir["targets"], root |-> ro, republished |-> TRUE] :
        ro \in {NoDoc, dir["root"]}}

\* The repository has moved on to a later snapshot, which its new timestamp
\* declares, and the snapshot the client already trusts is served in its
\* place.
Successor(md) == [md EXCEPT !.version = @ + 1]
Replayed(dir, th) ==
    [NoOffer EXCEPT !.timestamp = MkMeta("timestamp", th,
                                         Declare(Successor(dir["snapshot"]), "exact")),
                    !.snapshot = dir["snapshot"]]

\* The documents are fetched one after the other; what follows the document
\* the refresh stops at is never fetched.
RefreshMetadata ==
    /\ pc = "refresh"
    /\ \/ /\ metadata_dir["timestamp"] # NoDoc
          /\ \E o \in Republished(metadata_dir) : Refreshed(RefreshOn(o), o)
       \/ /\ metadata_dir["snapshot"] # NoDoc
          /\ \E th \in Headers :
               LET o == Replayed(metadata_dir, th)
                   r == RefreshOn(o)
               IN  /\ r.step # "timestamp"
                   /\ Refreshed(r, o)
       \/ \E th \in HeaderOffers :
            LET o1 == Offer(th, "exact", Unavailable, "exact", Unavailable, NoDoc, NoDoc)
                r1 == RefreshOn(o1)
            IN  IF r1.step = "timestamp" THEN Refreshed(r1, o1)
                ELSE \E sh \in HeaderOffers, how1 \in Declarations :
                       LET o2 == Offer(th, how1, sh, "exact", Unavailable, NoDoc, NoDoc)
                           r2 == RefreshOn(o2)
                       IN  IF r2.step = "snapshot" THEN Refreshed(r2, o2)
                           ELSE \E gh \in HeaderOffers, payload \in TargetsPayloads,
                                   how2 \in Declarations :
                                  LET o3 == Offer(th, how1, sh, how2, gh, payload, NoDoc)
                                      r3 == RefreshOn(o3)
                                  IN  IF r3.step = "targets" THEN Refreshed(r3, o3)
                                      ELSE \E ro \in RootOffers :
                                             LET o4 == [o3 EXCEPT !.root = ro]
                                             IN  Refreshed(RefreshOn(o4), o4)
    /\ UNCHANGED <<builder, procs, now, targets_dir, command, target, required, updater, root_data,
                   init_result, op_result, artifact, fetches>>

\* client.verify_and_download_target(target_path) and main's handling.
VerifyAndDownloadTarget ==
    /\ pc = "operation"
    /\ command = "download"
    /\ \E fetched \in Artifacts \cup {FetchFailed} :
         LET d == verify_and_download_target(updater, metadata_dir, target,
                                             fetched, targets_dir)
         IN  /\ artifact' = IF d.fetches = 0 THEN NoFile ELSE fetched
             /\ op_result' = d.result
             /\ targets_dir' = d.file
             /\ fetches' = fetches + d.fetches
             /\ IF d.result.ok
                THEN Finish(Success([target_path |-> d.result.data.target_path,
                                     length |-> d.result.data.length,
                                     hashes |-> d.result.data.hashes,
                                     verified |-> TRUE,
                                     content_length |-> Len(d.result.data.content)]))
                ELSE Finish(Failure("PY_TUF_DOWNLOAD_FAILED", d.result.error))
    /\ UNCHANGED <<builder, procs, now, metadata_dir, command, target, required, updater, root_data,
                   init_result, refresh_result, offered, stopped_at>>

\* main's list branch with a list_targets() that drops the trusted targets
\* document it cannot list.
ListTargets_drops ==
    /\ pc = "operation"
    /\ command = "list"
    /\ LET l == list_targets(updater, metadata_dir)
       IN  /\ op_result' = l
           /\ metadata_dir' = IF l.ok /\ l.data.count = 0
                              THEN [metadata_dir EXCEPT !["targets"] = NoDoc]
                              ELSE metadata_dir
           /\ IF l.ok THEN Finish(Success(l.data))
              ELSE Finish(Failure("PY_TUF_LIST_FAILED", l.error))
    /\ UNCHANGED <<builder, procs, now, targets_dir, command, target, required, updater, root_data,
                   init_result, refresh_result, offered, stopped_at, artifact, fetches>>

\* client.list_targets() and main's handling.
ListTargets ==
    /\ pc = "operation"
    /\ command = "list"
    /\ LET l == list_targets(updater, metadata_dir)
       IN  /\ op_result' = l
           /\ IF l.ok THEN Finish(Success(l.data))
              ELSE Finish(Failure("PY_TUF_LIST_FAILED", l.error))
    /\ UNCHANGED <<builder, procs, now, disk, command, target, required, updater, root_data, init_result,
                   refresh_result, offered, stopped_at, artifact, fetches>>

\* The process is gone; the next request starts another one.
ProcessExit ==
    /\ pc = "exited"
    /\ pc' = "idle"
    /\ command' = "" /\ target' = "" /\ required' = FALSE
    /\ Fresh
    /\ result' = NoResponse
    /\ stdout' = 0
    /\ exit_code' = -1
    /\ UNCHANGED <<builder, procs, now, disk>>

Next ==
    \/ ImportError
    \/ LegacyMode
    \/ BadInput
    \/ ReadRequest
    \/ ReadTrustedRoot
    \/ Initialize
    \/ RefreshMetadata
    \/ VerifyAndDownloadTarget
    \/ ListTargets
    \/ ProcessExit

Spec == Init /\ [][Next]_vars

\* ------------------------------------------------------------ the builder
\* run() calls the methods one after the other inside one try block; an
\* exception in any of them ends the run with sys.exit(1).
Running == bpc[1] \notin {"done", "failed", "crashed"}
Raise == bpc' = <<"failed", bpc[1]>>

\* mkdir(exist_ok=True) of the directories: what is there stays.
initialize_repository ==
    /\ bpc = <<"initialize_repository", "">>
    /\ bpc' = <<"generate_keys", "">>
    /\ UNCHANGED <<client, procs, run, self_keys, plugin_info, built, repo_metadata>>

\* A key for each of the four roles, or an exception and none.
generate_keys ==
    /\ bpc = <<"generate_keys", "">>
    /\ \/ /\ self_keys' = [r \in Roles |-> generate_ed25519_key(run, r)]
          /\ bpc' = <<"create_sample_plugin", "">>
       \/ /\ Raise
          /\ UNCHANGED self_keys
    /\ UNCHANGED <<client, procs, run, plugin_info, built, repo_metadata>>

create_sample_plugin ==
    /\ bpc = <<"create_sample_plugin", "">>
    /\ plugin_info' = TargetInfo(SamplePlugin)
    /\ bpc' = <<"root", "sign">>
    /\ UNCHANGED <<client, procs, run, self_keys, built, repo_metadata>>

\* The Metadata object create_<role>_metadata constructs and signs.
Construct(role) ==
    CASE role = "root"     -> BuildRoot(self_keys, Today(run))
      [] role = "targets"  -> BuildTargets(self_keys, Today(run), plugin_info)
      [] role = "snapshot" -> BuildSnapshot(self_keys, Today(run), built["targets"])
      [] OTHER             -> BuildTimestamp(self_keys, Today(run), built["snapshot"])

\* What run() calls after create_<role>_metadata.
AfterCreate(role) ==
    IF role = "timestamp" THEN <<"create_repository_info", "">>
    ELSE <<BuildOrder[Position(role) + 1], "sign">>

\* with open(file, 'w') as f: f.write(...) is two steps: the open truncates
\* the file, the close puts the content there.
\* create_root_metadata, create_targets_metadata, create_snapshot_metadata
\* and create_timestamp_metadata: construct, sign, save {role}.json, save
\* the versioned copy.
create_metadata(role) ==
    /\ bpc[1] = role
    /\ \/ /\ bpc[2] = "sign"
          /\ \/ /\ built' = [built EXCEPT ![role] = Construct(role)]
                /\ bpc' = <<role, "open">>
             \/ /\ Raise
                /\ UNCHANGED built
          /\ UNCHANGED repo_metadata
       \/ /\ bpc[2] = "open"
          /\ repo_metadata' = [repo_metadata EXCEPT ![LatestFile(role)] = Truncated]
          /\ bpc' = <<role, "write">>
          /\ UNCHANGED built
       \/ /\ bpc[2] = "write"
          /\ repo_metadata' = [repo_metadata EXCEPT ![LatestFile(role)] = built[role]]
          /\ bpc' = <<role, "open_versioned">>
          /\ UNCHANGED built
       \/ /\ bpc[2] = "open_versioned"
          /\ repo_metadata' = [repo_metadata EXCEPT
                                 ![VersionedFile(built[role].version, role)] = Truncated]
          /\ bpc' = <<role, "write_versioned">>
          /\ UNCHANGED built
       \/ /\ bpc[2] = "write_versioned"
          /\ repo_metadata' = [repo_metadata EXCEPT
                                 ![VersionedFile(built[role].version, role)] = built[role]]
          /\ bpc' = AfterCreate(role)
          /\ UNCHANGED built
    /\ UNCHANGED <<client, procs, run, self_keys, plugin_info>>

create_root_metadata == create_metadata("root")
create_targets_metadata == create_metadata("targets")
create_snapshot_metadata == create_metadata("snapshot")
create_timestamp_metadata == create_metadata("timestamp")

\* repository-info.json is written last; it is no metadata file.
create_repository_info ==
    /\ bpc = <<"create_repository_info", "">>
    /\ bpc' = <<"done", "">>
    /\ UNCHANGED <<client, procs, run, self_keys, plugin_info, built, repo_metadata>>

\* The process stops where it stands (killed, power lost).
Killed ==
    /\ Running
    /\ bpc' = <<"crashed", bpc[1]>>
    /\ UNCHANGED <<client, procs, run, self_keys, plugin_info, built, repo_metadata>>

\* The script is started again over the same directory.
Rerun ==
    /\ ~Running
    /\ run < MaxRuns
    /\ run' = run + 1
    /\ bpc' = <<"initialize_repository", "">>
    /\ self_keys' = NoKeys
    /\ plugin_info' = NoDoc
    /\ built' = NothingBuilt
    /\ UNCHANGED <<client, procs, repo_metadata>>

BuilderNext ==
    \/ initialize_repository
    \/ generate_keys
    \/ create_sample_plugin
    \/ create_root_metadata
    \/ create_targets_metadata
    \/ create_snapshot_metadata
    \/ create_timestamp_metadata
    \/ create_repository_info
    \/ Killed
    \/ Rerun

BuilderSpec == Init /\ [][BuilderNext]_vars

\* ------------------------------------------------------------ racing refreshes
\* Two invocations of main with the command refresh share metadata_dir.
\* Each is its own process: it builds its Updater from the files it finds,
\* refreshes against what it holds in memory and the library saves the
\* documents it accepted, one file after the other, each file replaced
\* atomically; there is no lock around any of it.

\* The root the operator pins: signed by the root key, not expired.
PinnedRoot == MkRoot(1, Clock + 1, RootRole, {"k1"})

\* Release n of the repository: timestamp, snapshot and targets of version
\* n, fully signed, unexpired, each parent declaring its child exactly.
ReleaseHeader(n) == [version |-> n, expires |-> Clock + 1, sigs |-> {"k1", "k2"}]
Release(n) ==
    Offer(ReleaseHeader(n), "exact", ReleaseHeader(n), "exact", ReleaseHeader(n),
          TargetInfo(SamplePlugin), NoDoc)

\* The order in which the accepted documents are saved.
SaveOrder == <<"timestamp", "snapshot", "targets">>

\* The other variables of the module stay as they are.
RaceFrame ==
    UNCHANGED <<builder, now, targets_dir, pc, command, target, required, updater, root_data,
                init_result, refresh_result, op_result, offered, stopped_at,
                artifact, fetches, result, stdout, exit_code>>

\* main reads a refresh request and creates the client.
Invoke(p) ==
    /\ procs[p].pc = "idle"
    /\ procs' = [procs EXCEPT ![p] = [NotStarted EXCEPT !.pc = "initialize"]]
    /\ UNCHANGED metadata_dir
    /\ RaceFrame

\* client.initialize(): the Updater is built from the files in metadata_dir.
InitializeOf(p) ==
    /\ procs[p].pc = "initialize"
    /\ LET i == initialize(PinnedRoot, metadata_dir)
       IN  /\ metadata_dir' = i.dir
           /\ procs' = [procs EXCEPT ![p].view = i.dir,
                                     ![p].pc = IF i.result.ok THEN "refresh" ELSE "exited"]
    /\ RaceFrame

\* client.refresh_metadata(): the documents served are checked against what
\* this invocation holds in memory, and those accepted are held in memory.
FetchAndVerify(p) ==
    /\ procs[p].pc = "refresh"
    /\ \E n \in Versions :
         LET r == refresh_metadata("Updater", procs[p].view, Release(n), now)
         IN  procs' = [procs EXCEPT
                         ![p].view = r.dir,
                         ![p].ok = r.result.ok,
                         ![p].todo = IF r.result.ok THEN SaveOrder ELSE <<>>,
                         ![p].pc = IF r.result.ok THEN "persist" ELSE "exited"]
    /\ UNCHANGED metadata_dir
    /\ RaceFrame

\* One accepted document replaces its file.
Persist(p) ==
    /\ procs[p].pc = "persist"
    /\ LET role == Head(procs[p].todo)
       IN  /\ metadata_dir' = [metadata_dir EXCEPT ![role] = procs[p].view[role]]
           /\ procs' = [procs EXCEPT
                           ![p].todo = Tail(procs[p].todo),
                           ![p].pc = IF Len(procs[p].todo) = 1 THEN "exited" ELSE "persist"]
    /\ RaceFrame

\* The process is gone.
ExitOf(p) ==
    /\ procs[p].pc = "exited"
    /\ procs' = [procs EXCEPT ![p] = NotStarted]
    /\ UNCHANGED metadata_dir
    /\ RaceFrame

RaceNext ==
    \E p \in Invocations :
      \/ Invoke(p)
      \/ InitializeOf(p)
      \/ FetchAndVerify(p)
      \/ Persist(p)
      \/ ExitOf(p)

RaceSpec == Init /\ [][RaceNext]_vars

\* ------------------------------------------------------------ properties
\* Position of a role in the refresh order; 5 stands for "stopped nowhere".
StepNo(step) ==
    CASE step = "timestamp" -> 1
      [] step = "snapshot"  -> 2
      [] step = "targets"   -> 3
      [] step = "root"      -> 4
      [] OTHER              -> 5

\* The step that runs updater.refresh(): before it metadata_dir is the
\* TrustState the documents are checked against, after it offered and
\* stopped_at tell what was served and where the refresh stopped.
RefreshRan == pc = "refresh" /\ pc' # "refresh"

\* A refresh that served o and stopped at stop, starting from the TrustState
\* dir, fetched and checked the document of role r.
Examined(o, stop, dir, r) ==
    /\ StepNo(r) <= StepNo(stop)
    /\ o[r] \notin {Unavailable, NoDoc}
    /\ r = "root" => o[r].version # dir["root"].version

\* What the parent served in o declares for the document of role r.
DeclaredFor(o, r) ==
    CASE r = "snapshot" -> o["timestamp"].meta
      [] r = "targets"  -> o["snapshot"].meta
      [] OTHER          -> NoDoc

LengthMatches(o, r) ==
    DeclaredFor(o, r) = NoDoc \/ Len(to_json(o[r])) = DeclaredFor(o, r).length
HashMatches(o, r) ==
    DeclaredFor(o, r) = NoDoc \/ Sha256(to_json(o[r])) = DeclaredFor(o, r).hashes
Consistent(o, r) == LengthMatches(o, r) /\ HashMatches(o, r)

\* The root whose role declarations the document of role r is checked under.
SigningRoot(o, dir, r) == IF r = "root" THEN o["root"] ELSE dir["root"]
SignedCount(o, dir, r) == ValidSignatures(o[r], r, SigningRoot(o, dir, r))
Threshold(o, dir, r) == SigningRoot(o, dir, r).roles[r].threshold

Lower(o, dir, r) == dir[r] # NoDoc /\ o[r].version < dir[r].version
Expired(o, clock, r) == o[r].expires <= clock

\* The refresh failed at the document of role r with the given error kind.
RejectedAs(res, stop, r, kind) == ~res.ok /\ stop = r /\ res.error_type = kind
\* The document of role r passed its step.
Accepted(stop, r) == StepNo(stop) > StepNo(r)

\* C1 as stated: across refreshes the accepted version of a role never goes
\* down, an equal version is not a rollback, and every examined document whose
\* version is below the trusted one is rejected as RollbackAttack.
C1_AnyLowerVersionIsRollback ==
    [][RefreshRan => \A r \in Roles :
         /\ metadata_dir[r] # NoDoc =>
              /\ metadata_dir'[r] # NoDoc
              /\ metadata_dir'[r].version >= metadata_dir[r].version
         /\ (Examined(offered', stopped_at', metadata_dir, r)
               /\ ~Lower(offered', metadata_dir, r)) =>
              ~RejectedAs(refresh_result', stopped_at', r, "RollbackAttack")
         /\ (Examined(offered', stopped_at', metadata_dir, r)
               /\ Lower(offered', metadata_dir, r)) =>
              RejectedAs(refresh_result', stopped_at', r, "RollbackAttack")
      ]_vars

\* C1 amended: as C1, where the document rejected as RollbackAttack is one
\* that matches its parent's declaration and meets the signature threshold
\* (the checks that run before the version check).
C1_LowerVersionIsRollback ==
    [][RefreshRan => \A r \in Roles :
         /\ metadata_dir[r] # NoDoc =>
              /\ metadata_dir'[r] # NoDoc
              /\ metadata_dir'[r].version >= metadata_dir[r].version
         /\ (Examined(offered', stopped_at', metadata_dir, r)
               /\ ~Lower(offered', metadata_dir, r)) =>
              ~RejectedAs(refresh_result', stopped_at', r, "RollbackAttack")
         /\ (Examined(offered', stopped_at', metadata_dir, r)
               /\ Lower(offered', metadata_dir, r)
               /\ Consistent(offered', r)
               /\ SignedCount(offered', metadata_dir, r)
                    >= Threshold(offered', metadata_dir, r)) =>
              RejectedAs(refresh_result', stopped_at', r, "RollbackAttack")
      ]_vars

\* C1 witness: a refresh has been refused as RollbackAttack at a snapshot
\* older than the trusted one, and the trusted one is still in place.
C1_Witness ==
    /\ pc = "exited"
    /\ RejectedAs(refresh_result, stopped_at, "snapshot", "RollbackAttack")
    /\ Examined(offered, stopped_at, metadata_dir, "snapshot")
    /\ Lower(offered, metadata_dir, "snapshot")

\* C2: a refresh that fails, at whatever step and for whatever reason, leaves
\* the persisted TrustState of all four roles as it was.
C2_RefreshAtomic ==
    [][(RefreshRan /\ ~refresh_result'.ok) => metadata_dir' = metadata_dir]_vars

\* C2 witness: a refresh failed at the root step after a timestamp, snapshot
\* and targets newer than the trusted ones had passed their checks.
C2_Witness ==
    /\ pc = "exited"
    /\ ~refresh_result.ok
    /\ stopped_at = "root"
    /\ \A r \in OnlineRoles :
         /\ metadata_dir[r] # NoDoc
         /\ offered[r].version > metadata_dir[r].version

\* C3 as stated: every examined document with fewer valid signatures than its
\* role's threshold is rejected as InvalidSignature, and one with exactly the
\* threshold that passes the other checks is accepted.
C3_AnyUnderSignedIsInvalidSignature ==
    [][RefreshRan => \A r \in Roles :
         Examined(offered', stopped_at', metadata_dir, r) =>
           /\ SignedCount(offered', metadata_dir, r)
                < Threshold(offered', metadata_dir, r) =>
                RejectedAs(refresh_result', stopped_at', r, "InvalidSignature")
           /\ (/\ SignedCount(offered', metadata_dir, r)
                    = Threshold(offered', metadata_dir, r)
               /\ Consistent(offered', r)
               /\ ~Lower(offered', metadata_dir, r)
               /\ ~Expired(offered', now, r)) =>
                Accepted(stopped_at', r)
      ]_vars

\* C3 amended: as C3, where the document rejected as InvalidSignature is one
\* that matches its parent's declaration (the check that runs before the
\* signature check).
C3_UnderSignedIsInvalidSignature ==
    [][RefreshRan => \A r \in Roles :
         Examined(offered', stopped_at', metadata_dir, r) =>
           /\ (/\ SignedCount(offered', metadata_dir, r)
                    < Threshold(offered', metadata_dir, r)
               /\ Consistent(offered', r)) =>
                RejectedAs(refresh_result', stopped_at', r, "InvalidSignature")
           /\ (/\ SignedCount(offered', metadata_dir, r)
                    = Threshold(offered', metadata_dir, r)
               /\ Consistent(offered', r)
               /\ ~Lower(offered', metadata_dir, r)
               /\ ~Expired(offered', now, r)) =>
                Accepted(stopped_at', r)
      ]_vars

\* C3 witness: a refresh has been refused as InvalidSignature at a targets
\* document one valid signature short of the threshold, after a timestamp and
\* a snapshot with exactly the threshold had passed.
C3_Witness ==
    /\ pc = "exited"
    /\ RejectedAs(refresh_result, stopped_at, "targets", "InvalidSignature")
    /\ SignedCount(offered, metadata_dir, "targets")
         = Threshold(offered, metadata_dir, "targets") - 1
    /\ \A r \in {"timestamp", "snapshot"} :
         SignedCount(offered, metadata_dir, r) = Threshold(offered, metadata_dir, r)

DownloadRan == pc = "operation" /\ command = "download" /\ pc' # "operation"

\* The trusted targets document lists the path.
Listed(dir, path) ==
    /\ dir["targets"] # NoDoc
    /\ dir["targets"].targets # NoDoc
    /\ path = SamplePath

Unchanged(o, dir) ==
    /\ dir["timestamp"] # NoDoc
    /\ \A r \in OnlineRoles : o[r] = dir[r]
    /\ o["root"] = NoDoc \/ o["root"].version = dir["root"].version

\* C7: a successful refresh leaves in the TrustState exactly the documents
\* the repository served; the initialize of the next invocation, when it
\* succeeds, leaves that TrustState as it is; and a refresh that is then
\* served the same documents again succeeds and leaves it identical.
C7_RefreshIdempotent ==
    [][/\ (RefreshRan /\ refresh_result'.ok) =>
            \A r \in OnlineRoles : metadata_dir'[r] = offered'[r]
       /\ (pc = "bootstrap" /\ pc' = "refresh" /\ metadata_dir["root"] # NoDoc) =>
            metadata_dir' = metadata_dir
       /\ (RefreshRan /\ Unchanged(offered', metadata_dir)) =>
            /\ refresh_result'.ok
            /\ metadata_dir' = metadata_dir
            /\ command = "refresh" => (result'.ok /\ exit_code' = 0)
      ]_vars

\* C7 witness: a refresh command has reported ok on a repository that served
\* again the documents already trusted.
C7_Witness ==
    /\ pc = "exited"
    /\ command = "refresh"
    /\ result.ok
    /\ offered.republished
    /\ Unchanged(offered, metadata_dir)

\* C8: no step of any invocation lowers the version persisted for a role or
\* removes a persisted document.
C8_VersionsNeverDecrease ==
    [][\A r \in Roles :
         metadata_dir[r] # NoDoc =>
           /\ metadata_dir'[r] # NoDoc
           /\ metadata_dir'[r].version >= metadata_dir[r].version
      ]_vars

\* C8 witness: an invocation is about to bootstrap from a well-formed, signed
\* pinned root that is older than the persisted root, over a TrustState that
\* holds all four roles.
C8_Witness ==
    /\ pc = "bootstrap"
    /\ WellFormedRoot(root_data)
    /\ Updater_threshold_met(root_data, "root", root_data)
    /\ \A r \in Roles : metadata_dir[r] # NoDoc
    /\ root_data.version < metadata_dir["root"].version

\* The step that runs the rest of initialize() on root_data.
InitializeRan == pc = "bootstrap" /\ pc' # "bootstrap"

\* C9 as stated: the pinned root is accepted only if it has the expected shape
\* and meets its own root threshold; otherwise initialize fails with
\* UntrustedRoot (too few signatures) or MalformedRoot (unparseable or wrong
\* shape), the TrustState is unchanged and the invocation ends there.
C9_BootstrapKinds ==
    [][InitializeRan =>
         IF /\ WellFormedRoot(root_data)
            /\ ValidSignatures(root_data, "root", root_data)
                 >= root_data.roles["root"].threshold
         THEN init_result'.ok
         ELSE /\ ~init_result'.ok
              /\ metadata_dir' = metadata_dir
              /\ pc' = "exited"
              /\ refresh_result' = NotRun /\ op_result' = NotRun /\ fetches' = 0
              /\ result'.error.code = "PY_TUF_INIT_FAILED"
              /\ exit_code' = 20
              /\ WellFormedRoot(root_data) => init_result'.error_type = "UntrustedRoot"
              /\ (~WellFormedRoot(root_data) /\ root_data # MissingFile) =>
                   init_result'.error_type = "MalformedRoot"
      ]_vars

\* C10: a download of a path the trusted targets document does not list
\* fails as target not found with code PY_TUF_DOWNLOAD_FAILED and exit code
\* 30; nothing is fetched and targets_dir is as it was.
C10_AbsentTargetNotFound ==
    [][(DownloadRan /\ ~Listed(metadata_dir, target)) =>
         /\ ~op_result'.ok
         /\ op_result'.error = "Target not found"
         /\ ~result'.ok
         /\ result'.error.code = "PY_TUF_DOWNLOAD_FAILED"
         /\ result'.error.message = "Target not found"
         /\ exit_code' = 30
         /\ fetches' = 0
         /\ artifact' = NoFile
         /\ targets_dir' = targets_dir
      ]_vars

\* C10 witness: a download of a path other than the one the trusted targets
\* document lists has exited with 30 and fetched nothing.
C10_Witness ==
    /\ pc = "exited"
    /\ command = "download"
    /\ target = OtherPath
    /\ Listed(metadata_dir, SamplePath)
    /\ op_result.error = "Target not found"
    /\ exit_code = 30
    /\ fetches = 0

\* ------------------------------------------------------------ dispatcher
\* The stages a command requires, in order.
RequiresBootstrap(c) == c \in {"init", "refresh", "download", "list"}
RequiresRefresh(c) == c \in {"refresh", "download", "list"}
RequiresOperation(c) == c \in {"download", "list"}

\* A stage ran in this invocation and failed.
StageFailed(res) == res # NotRun /\ ~res.ok

\* The response carries an error record with a code and a message.
HasErrorCode(res) == DOMAIN res.error = {"code", "message"}

\* C11: a response has ok true only if every stage its command requires
\* succeeded in this invocation, and a failure of any stage gives ok false
\* with an error code.
C11_NoPartialSuccess ==
    pc = "exited" =>
      /\ (result.ok /\ command # "test") =>
           /\ RequiresBootstrap(command) /\ init_result.ok
           /\ RequiresRefresh(command) => refresh_result.ok
           /\ RequiresOperation(command) => op_result.ok
      /\ (StageFailed(init_result) \/ StageFailed(refresh_result)
            \/ StageFailed(op_result)) =>
           /\ ~result.ok
           /\ HasErrorCode(result)
           /\ result.data = NoDoc

\* C11 witness: a download whose bootstrap and refresh succeeded and whose
\* artifact failed verification has answered ok false.
C11_Witness ==
    /\ pc = "exited"
    /\ command = "download"
    /\ init_result.ok
    /\ refresh_result.ok
    /\ StageFailed(op_result)
    /\ fetches = 1
    /\ ~result.ok
    /\ result.error.code = "PY_TUF_DOWNLOAD_FAILED"

\* The request-input errors, the trust errors and the artifact errors.
InputCodes == {"PY_TUF_NO_INPUT", "PY_TUF_BAD_JSON", "PY_TUF_INVALID_ARGS",
               "PY_TUF_UNKNOWN_COMMAND"}
TrustCodes == {"PY_TUF_INIT_FAILED", "PY_TUF_REFRESH_FAILED"}
ArtifactCodes == {"PY_TUF_DOWNLOAD_FAILED"}

\* C12: for every request the exit code is 0 exactly when the response has
\* ok true, 10 for malformed or missing input (no input, invalid JSON,
\* missing fields, unrecognised request), 20 when bootstrap or refresh
\* fails, 30 when download or verification fails, and 50 for nothing that
\* falls in one of these classes.
C12_ExitCodeContract ==
    (pc = "exited" /\ (result.ok \/ HasErrorCode(result))) =>
      /\ exit_code = 0 <=> result.ok
      /\ ~result.ok =>
           /\ result.error.code \in InputCodes => exit_code = 10
           /\ result.error.code \in TrustCodes => exit_code = 20
           /\ result.error.code \in ArtifactCodes => exit_code = 30
           /\ exit_code = 50 =>
                result.error.code \notin InputCodes \cup TrustCodes \cup ArtifactCodes

\* C13: an invocation that has exited has printed exactly one response
\* line, on every path: success, each stage failure, empty input, invalid
\* JSON and unexpected internal exception.
C13_OneResponseLine ==
    pc = "exited" => stdout = 1

\* The listed error codes.
ErrorCodes == {"PY_TUF_NO_INPUT", "PY_TUF_INVALID_ARGS", "PY_TUF_BAD_JSON",
               "PY_TUF_INIT_FAILED", "PY_TUF_REFRESH_FAILED",
               "PY_TUF_DOWNLOAD_FAILED", "PY_TUF_LIST_FAILED",
               "PY_TUF_UNKNOWN_COMMAND", "PY_TUF_INTERNAL"}

\* C14: every response printed is {ok, data} when ok is true and
\* {ok, error: {code, message}} when ok is false, with the code one of the
\* listed codes; this includes the response of the import guard and of the
\* legacy command-line mode.
C14_ResponseShape ==
    (pc = "exited" /\ stdout >= 1) =>
      /\ result.ok => (result.data # NoDoc /\ result.error = NoDoc)
      /\ ~result.ok =>
           /\ result.data = NoDoc
           /\ HasErrorCode(result)
           /\ result.error.code \in ErrorCodes

\* A request object that carries the required parameters (and a target for
\* download) was read by the invocation that has exited.
WellFormedRequest ==
    /\ pc = "exited"
    /\ command # ""
    /\ result.ok \/ result.error.code # "PY_TUF_INVALID_ARGS"

\* No stage ran and nothing was fetched.
NoStageRan ==
    /\ init_result = NotRun
    /\ refresh_result = NotRun
    /\ op_result = NotRun
    /\ updater = "None"
    /\ fetches = 0

\* The command named by_name is answered with the structured result of the
\* bootstrap of the pinned root, and nothing else runs.
BootstrapAnswered(by_name) ==
    command = by_name =>
      /\ init_result # NotRun
      /\ refresh_result = NotRun
      /\ op_result = NotRun
      /\ result.ok <=> init_result.ok
      /\ result.ok => result.data = init_result
      /\ ~result.ok => /\ result.error.code = "PY_TUF_INIT_FAILED"
                       /\ result.error.message = init_result.error

\* Every command outside the set accepted is answered UNKNOWN_COMMAND and no
\* stage runs.
OthersUnknown(accepted) ==
    command \notin accepted =>
      /\ ~result.ok
      /\ result.error.code = "PY_TUF_UNKNOWN_COMMAND"
      /\ NoStageRan

DownloadedBefore ==
    /\ \A r \in Roles : metadata_dir[r] # NoDoc
    /\ Listed(metadata_dir, SamplePath)
    /\ targets_dir = SamplePlugin

\* The timestamp served is a document with a version below the trusted one.
TimestampDowngrade(o, dir) ==
    /\ o["timestamp"] # Unavailable
    /\ Lower(o, dir, "timestamp")

\* C16: after a bootstrap, a successful refresh and a successful download of
\* the sample target, a refresh invocation that is served a timestamp with a
\* lower version answers ok false with code PY_TUF_REFRESH_FAILED and exit
\* code 20, and the persisted TrustState holds the same documents for every
\* role as before.
C16_DowngradeScenario ==
    [][(RefreshRan /\ command = "refresh" /\ DownloadedBefore
          /\ TimestampDowngrade(offered', metadata_dir)) =>
         /\ pc' = "exited"
         /\ ~refresh_result'.ok
         /\ stopped_at' = "timestamp"
         /\ ~result'.ok
         /\ result'.error.code = "PY_TUF_REFRESH_FAILED"
         /\ exit_code' = 20
         /\ stdout' = 1
         /\ metadata_dir' = metadata_dir
         /\ targets_dir' = targets_dir
      ]_vars

\* C16 witness: with the sample target downloaded earlier, a refresh
\* invocation was served a properly signed, unexpired timestamp of a lower
\* version and exited with 20 on a rollback.
C16_Witness ==
    /\ pc = "exited"
    /\ command = "refresh"
    /\ DownloadedBefore
    /\ TimestampDowngrade(offered, metadata_dir)
    /\ RejectedAs(refresh_result, stopped_at, "timestamp", "RollbackAttack")
    /\ result.error.code = "PY_TUF_REFRESH_FAILED"
    /\ result.error.message = "Rollback attack detected"
    /\ exit_code = 20

\* ------------------------------------------------------------ the metadata directory
\* A run of the builder has gone through.
RunComplete == bpc[1] = "done"

\* C17: a file {version}.{role}.json, once written, keeps its content
\* through every later operation on the directory (a re-run of the
\* repository initialization among them), and after a complete run every
\* document in a {role}.json is also in the archive under its version.
C17_ArchiveImmutable ==
    [][/\ \A f \in MetadataFiles :
            (f[2] # 0 /\ IsDocument(repo_metadata[f])) =>
              repo_metadata'[f] = repo_metadata[f]
       /\ RunComplete' =>
            \A r \in Roles :
              IsDocument(repo_metadata'[LatestFile(r)]) =>
                repo_metadata'[VersionedFile(repo_metadata'[LatestFile(r)].version, r)]
                  = repo_metadata'[LatestFile(r)]
      ]_vars

\* The parent file declares a child and the child file does not hold the
\* bytes declared.
Mismatched(dir, parent, child) ==
    /\ IsDocument(dir[LatestFile(parent)])
    /\ dir[LatestFile(child)] # NoDoc
    /\ \/ ~IsDocument(dir[LatestFile(child)])
       \/ ~Updater_matches(dir[LatestFile(child)], dir[LatestFile(parent)].meta)

\* C18: wherever the process is stopped, between two file writes or in the
\* middle of one, the metadata directory holds no partially written
\* document and no snapshot.json or targets.json whose bytes differ from
\* what the parent document in the same directory declares.
C18_CrashConsistent ==
    bpc[1] = "crashed" =>
      /\ \A f \in MetadataFiles : repo_metadata[f] # Truncated
      /\ ~Mismatched(repo_metadata, "timestamp", "snapshot")
      /\ ~Mismatched(repo_metadata, "snapshot", "targets")

\* The document of every role before role in the build order has been
\* constructed, signed and saved to both of its files by this run.
UpstreamSaved(role) ==
    \A u \in Upstream(role) :
      /\ built[u] # NoDoc
      /\ built[u].sigs # {}
      /\ repo_metadata[LatestFile(u)] = built[u]
      /\ repo_metadata[VersionedFile(built[u].version, u)] = built[u]

\* The run failed in the method named.
FailedIn(method) == bpc = <<"failed", method>>

\* The child the parent file refers to is not in the directory, or it is
\* there unsigned.
RefersToMissing(dir, parent, child) ==
    /\ IsDocument(dir[LatestFile(parent)])
    /\ \/ ~IsDocument(dir[LatestFile(child)])
       \/ ~Updater_matches(dir[LatestFile(child)], dir[LatestFile(parent)].meta)
       \/ dir[LatestFile(child)].sigs = {}

\* C20: the builder constructs a document only after every document before
\* it in the order root, targets, snapshot, timestamp has been built, signed
\* and saved; a run in which a method fails constructs and writes nothing
\* further, and then the directory holds no timestamp or snapshot that
\* refers to a missing or unsigned upstream document.
C20_BuilderFailsClosed ==
    /\ \A r \in Roles : built[r] # NoDoc => UpstreamSaved(r)
    /\ FailedIn("generate_keys") => built = NothingBuilt
    /\ \A r \in Roles : FailedIn(r) =>
         /\ \A d \in {r} \cup Downstream(r) : built[d] = NoDoc
         /\ ~RefersToMissing(repo_metadata, "timestamp", "snapshot")
         /\ ~RefersToMissing(repo_metadata, "snapshot", "targets")

\* ------------------------------------------------------------ concurrency
\* No invocation is between its first and its last step.
Quiescent == \A p \in Invocations : procs[p].pc \in {"idle", "exited"}

\* The TrustState is what one refresh verified as a whole: nothing beyond
\* the root, or the three documents of one release.
FullyVerified(dir) ==
    \/ \A r \in OnlineRoles : dir[r] = NoDoc
    \/ \E n \in Versions : \A r \in OnlineRoles : dir[r] = Release(n)[r]

\* The invocation holds in memory an older version of some role than the
\* files hold.
Stale(p) ==
    \E r \in Roles :
      /\ metadata_dir[r] # NoDoc
      /\ \/ procs[p].view[r] = NoDoc
         \/ procs[p].view[r].version < metadata_dir[r].version

\* C19: with two invocations refreshing the same metadata_dir at once, under
\* every interleaving the persisted TrustState, once both are through, is
\* one that a refresh verified as a whole; no step replaces a persisted
\* document by one of a lower version; and an invocation whose view is
\* stale writes nothing.
C19_RacingRefreshes ==
    [][/\ Quiescent' => FullyVerified(metadata_dir')
       /\ \A r \in Roles :
            metadata_dir[r] # NoDoc =>
              /\ metadata_dir'[r] # NoDoc
              /\ metadata_dir'[r].version >= metadata_dir[r].version
       /\ \A p \in Invocations :
            (procs[p].pc = "persist" /\ Stale(p) /\ procs'[p] # procs[p]) =>
              metadata_dir' = metadata_dir
      ]_vars

\* ------------------------------------------------------------ the refresh order
\* The document served for role r was fetched and passes every check of its
\* step against the TrustState dir: declaration of the parent served with
\* it, signature threshold, version, expiry.
PassesAll(o, dir, clock, r) ==
    /\ o[r] \notin {Unavailable, NoDoc}
    /\ Consistent(o, r)
    /\ SignedCount(o, dir, r) >= Threshold(o, dir, r)
    /\ ~Lower(o, dir, r)
    /\ ~Expired(o, clock, r)

\* The roles whose step comes before (after) the step of role r.
Earlier(r) == {e \in Roles : StepNo(e) < StepNo(r)}
Later(r) == {l \in Roles : StepNo(l) > StepNo(r)}

\* C21: within one refresh the documents are accepted in the order
\* timestamp, snapshot, targets, root: a refresh that stops at a step has
\* passed every check of the steps before it, fetches and accepts nothing
\* of the steps after it and ends the invocation with the TrustState as it
\* was; a document enters the TrustState only when the documents of all
\* steps passed, the root only if a newer one was advertised.
C21_RefreshOrder ==
    [][RefreshRan =>
         /\ ~refresh_result'.ok =>
              /\ stopped_at' \in Roles
              /\ \A e \in Earlier(stopped_at') :
                   PassesAll(offered', metadata_dir, now, e)
              /\ ~(Examined(offered', stopped_at', metadata_dir, stopped_at')
                     /\ PassesAll(offered', metadata_dir, now, stopped_at'))
              /\ \A l \in Later(stopped_at') : offered'[l] \in {Unavailable, NoDoc}
              /\ metadata_dir' = metadata_dir
              /\ pc' = "exited"
         /\ refresh_result'.ok =>
              /\ stopped_at' = ""
              /\ \A r \in OnlineRoles :
                   /\ PassesAll(offered', metadata_dir, now, r)
                   /\ metadata_dir'[r] = offered'[r]
              /\ metadata_dir'["root"] # metadata_dir["root"] =>
                   /\ Examined(offered', "", metadata_dir, "root")
                   /\ PassesAll(offered', metadata_dir, now, "root")
                   /\ metadata_dir'["root"] = offered'["root"]
      ]_vars

\* C21 witness: a refresh stopped at the targets step, after a timestamp
\* and a snapshot that pass all their checks, and no root was fetched.
C21_Witness ==
    /\ pc = "exited"
    /\ ~refresh_result.ok
    /\ stopped_at = "targets"
    /\ offered["targets"] # Unavailable
    /\ PassesAll(offered, metadata_dir, now, "timestamp")
    /\ PassesAll(offered, metadata_dir, now, "snapshot")
    /\ offered["root"] = NoDoc

\* ------------------------------------------------------------ mix and match
\* The roles whose document is declared by a parent document.
Declared == {"snapshot", "targets"}

\* The document served for role r is the one the client already trusts, and
\* it matches what the trusted parent declares for it.
StaleButTrusted(o, dir, r) ==
    /\ dir[r] # NoDoc
    /\ o[r] = dir[r]
    /\ Updater_matches(o[r], DeclaredFor(dir, r))

\* C22: in a refresh the snapshot is compared with the declaration of the
\* timestamp served in this refresh and the targets with that of the snapshot
\* served in this refresh: an examined document is rejected as
\* InconsistentMetadata exactly when it differs from that declaration, so a
\* stale document that still matches the trusted parent is rejected when the
\* parent accepted in this refresh declares another one, and the TrustState
\* stays as it was.
C22_MixAndMatch ==
    [][RefreshRan => \A r \in Declared :
         Examined(offered', stopped_at', metadata_dir, r) =>
           /\ RejectedAs(refresh_result', stopped_at', r, "InconsistentMetadata")
                <=> ~Consistent(offered', r)
           /\ (StaleButTrusted(offered', metadata_dir, r) /\ ~Consistent(offered', r)) =>
                /\ ~refresh_result'.ok
                /\ stopped_at' = r
                /\ metadata_dir' = metadata_dir
      ]_vars

\* C22 witness: a newer timestamp passed all its checks, the snapshot served
\* with it is the trusted one, which the trusted timestamp declares, and the
\* refresh rejected it as inconsistent.
C22_Witness ==
    /\ pc = "exited"
    /\ RejectedAs(refresh_result, stopped_at, "snapshot", "InconsistentMetadata")
    /\ StaleButTrusted(offered, metadata_dir, "snapshot")
    /\ PassesAll(offered, metadata_dir, now, "timestamp")
    /\ offered["timestamp"].version > metadata_dir["timestamp"].version

\* ------------------------------------------------------------ root rotation
\* A root document was served with the refresh.
RootServed(o) == o["root"] \notin {NoDoc, Unavailable}

\* The root served carries at least its own root threshold of valid
\* signatures of keys it lists for the root role.
MeetsOwnThreshold(o) ==
    ValidSignatures(o["root"], "root", o["root"]) >= o["root"].roles["root"].threshold

\* C23: a refresh replaces the trusted root only by the root served with it,
\* and only when that root meets its own root threshold and has a higher
\* version than the trusted one; a served root of equal or lower version, or
\* below its threshold, leaves the trusted root as it was.
C23_RootRotation ==
    [][RefreshRan =>
         /\ metadata_dir'["root"] # metadata_dir["root"] =>
              /\ refresh_result'.ok
              /\ RootServed(offered')
              /\ metadata_dir'["root"] = offered'["root"]
              /\ MeetsOwnThreshold(offered')
              /\ offered'["root"].version > metadata_dir["root"].version
         /\ (RootServed(offered')
               /\ (\/ offered'["root"].version <= metadata_dir["root"].version
                   \/ ~MeetsOwnThreshold(offered'))) =>
              metadata_dir'["root"] = metadata_dir["root"]
      ]_vars

\* C23 witness: a root of a higher version than the trusted one was served
\* with fewer valid signatures than its own root threshold; the refresh
\* stopped at the root step and the trusted root stayed.
C23_Witness ==
    /\ pc = "exited"
    /\ RejectedAs(refresh_result, stopped_at, "root", "InvalidSignature")
    /\ RootServed(offered)
    /\ ~MeetsOwnThreshold(offered)
    /\ offered["root"].version > metadata_dir["root"].version
    /\ metadata_dir["root"] # offered["root"]

\* ------------------------------------------------------------ read-only operations
\* The download or list stage of the invocation is running.
OperationRuns == pc = "operation" /\ pc' # "operation"
\* The bootstrap of this step created the TrustState from the pinned root.
BootstrapCreated ==
    /\ pc = "bootstrap"
    /\ \A r \in Roles : metadata_dir[r] = NoDoc
    /\ init_result'.ok
    /\ metadata_dir' = [metadata_dir EXCEPT !["root"] = root_data]

\* C24: verify_and_download_target and list_targets, whether they succeed or
\* fail, leave the trusted document of every role as it was; the TrustState
\* changes only in a refresh that succeeded and in the bootstrap that creates
\* it from the pinned root when there was none.
C24_OperationsReadOnly ==
    [][/\ OperationRuns =>
            /\ command \in {"download", "list"}
            /\ op_result' # NotRun
            /\ \A r \in Roles : metadata_dir'[r] = metadata_dir[r]
       /\ metadata_dir' # metadata_dir =>
            \/ RefreshRan /\ refresh_result'.ok
            \/ BootstrapCreated
      ]_vars

\* C24 witness: a download failed on a corrupted artifact after a refresh
\* that succeeded, and the TrustState is the one that refresh accepted.
C24_Witness ==
    /\ pc = "exited"
    /\ command = "download"
    /\ op_result # NotRun
    /\ ~op_result.ok
    /\ artifact \notin {NoFile, FetchFailed}
    /\ refresh_result.ok
    /\ \A r \in OnlineRoles : metadata_dir[r] = offered[r]

\* ------------------------------------------------------------ stage order
\* The stage whose result is res ran in this invocation.
Ran(res) == res # NotRun
\* The error code main gives to a failure of the download or list stage.
OperationCode(c) ==
    IF c = "download" THEN "PY_TUF_DOWNLOAD_FAILED" ELSE "PY_TUF_LIST_FAILED"
\* The invocation has answered ok false with the given code.
FailedWith(code) == ~result.ok /\ HasErrorCode(result) /\ result.error.code = code

\* C25: in one invocation the refresh runs only after the bootstrap
\* succeeded and the download or list only after the refresh succeeded; the
\* error code of the response names the first stage that failed, and no
\* stage has run after a stage that failed.
C25_StageOrder ==
    /\ (Ran(refresh_result) \/ pc = "refresh") =>
         /\ RequiresRefresh(command)
         /\ Ran(init_result) /\ init_result.ok
    /\ (Ran(op_result) \/ pc = "operation") =>
         /\ RequiresOperation(command)
         /\ Ran(refresh_result) /\ refresh_result.ok
    /\ StageFailed(init_result) =>
         /\ pc = "exited"
         /\ FailedWith("PY_TUF_INIT_FAILED")
         /\ ~Ran(refresh_result) /\ ~Ran(op_result)
         /\ fetches = 0
    /\ StageFailed(refresh_result) =>
         /\ pc = "exited"
         /\ FailedWith("PY_TUF_REFRESH_FAILED")
         /\ ~Ran(op_result)
         /\ fetches = 0
    /\ StageFailed(op_result) =>
         /\ pc = "exited"
         /\ FailedWith(OperationCode(command))

\* C25 witness: a list request whose bootstrap succeeded and whose refresh
\* failed was answered with the refresh code, and list_targets never ran.
C25_Witness ==
    /\ pc = "exited"
    /\ command = "list"
    /\ init_result.ok
    /\ StageFailed(refresh_result)
    /\ ~Ran(op_result)
    /\ FailedWith("PY_TUF_REFRESH_FAILED")

\* ------------------------------------------------------------ argument validation
\* This step reads a request object from stdin.
RequestRead == pc = "idle" /\ command' # ""
\* The request read lacks one of the four required parameters, or asks for a
\* download without a target.
LacksArguments ==
    \/ ~required'
    \/ command' = "download" /\ target' = ""

\* C29: the arguments are validated before any trust operation: a request
\* other than test that lacks a required parameter, or a download without
\* target, is answered with PY_TUF_INVALID_ARGS and exit code 10 in the step
\* that reads it, with no bootstrap, refresh or fetch and with the
\* TrustState and the targets directory as they were; test is answered ok
\* true whatever else the request carries; and a stage starts only for a
\* request that has all its arguments.
C29_ValidationFirst ==
    [][/\ RequestRead =>
            /\ command' = "test" =>
                 /\ pc' = "exited"
                 /\ result'.ok
                 /\ exit_code' = 0
                 /\ stdout' = stdout + 1
            /\ (command' # "test" /\ LacksArguments) =>
                 /\ pc' = "exited"
                 /\ ~result'.ok
                 /\ result'.error.code = "PY_TUF_INVALID_ARGS"
                 /\ exit_code' = 10
                 /\ stdout' = stdout + 1
            /\ (command' = "test" \/ LacksArguments) =>
                 /\ init_result' = NotRun
                 /\ refresh_result' = NotRun
                 /\ op_result' = NotRun
                 /\ updater' = "None"
                 /\ fetches' = 0
                 /\ metadata_dir' = metadata_dir
                 /\ targets_dir' = targets_dir
       /\ pc' \in {"initialize", "bootstrap", "refresh", "operation"} =>
            /\ required'
            /\ command' = "download" => target' # ""
      ]_vars

\* C29 witness: over an existing TrustState a refresh request without the
\* required parameters was answered with PY_TUF_INVALID_ARGS and exit code
\* 10, and no stage ran.
C29_Witness ==
    /\ pc = "exited"
    /\ command = "refresh"
    /\ ~required
    /\ FailedWith("PY_TUF_INVALID_ARGS")
    /\ exit_code = 10
    /\ NoStageRan
    /\ metadata_dir["timestamp"] # NoDoc

\* ------------------------------------------------------------ no internal retry
\* The invocation is under way: the step taken belongs to it.
InFlight == pc \notin {"idle", "exited"}
\* The refresh stopped because the document of its step could not be fetched.
DocumentUnavailable(o, stop) == stop \in Roles /\ o[stop] = Unavailable

\* C30: within one invocation nothing is attempted twice: the result of a
\* stage that ran and the documents served to its refresh stay as they are
\* until the process has exited, at most one artifact is fetched, and a
\* document or artifact that cannot be fetched ends the invocation in that
\* step with ok false; after the exit the only step is the start of another
\* process, with every result cleared.
C30_NoInternalRetry ==
    [][/\ InFlight =>
            /\ Ran(init_result) => init_result' = init_result
            /\ Ran(refresh_result) =>
                 /\ refresh_result' = refresh_result
                 /\ offered' = offered
                 /\ stopped_at' = stopped_at
            /\ Ran(op_result) => op_result' = op_result
       /\ fetches' <= 1
       /\ (RefreshRan /\ DocumentUnavailable(offered', stopped_at')) =>
            /\ refresh_result'.error_type = "TransportError"
            /\ pc' = "exited"
            /\ ~result'.ok
            /\ metadata_dir' = metadata_dir
       /\ (DownloadRan /\ artifact' = FetchFailed) =>
            /\ op_result'.error_type = "TransportError"
            /\ pc' = "exited"
            /\ ~result'.ok
            /\ fetches' = 1
            /\ targets_dir' = targets_dir
       /\ pc = "exited" =>
            /\ pc' = "idle"
            /\ init_result' = NotRun /\ refresh_result' = NotRun /\ op_result' = NotRun
            /\ fetches' = 0
      ]_vars

\* C30 witness: the snapshot could not be fetched after the timestamp had
\* passed; the refresh failed with a transport error, the invocation answered
\* ok false and nothing else was fetched.
C30_Witness ==
    /\ pc = "exited"
    /\ command = "download"
    /\ DocumentUnavailable(offered, "snapshot")
    /\ stopped_at = "snapshot"
    /\ refresh_result.error_type = "TransportError"
    /\ ~result.ok
    /\ ~Ran(op_result)
    /\ fetches = 0

\* ------------------------------------------------------------ the built repository
\* The document in {role}.json of the metadata directory.
Persisted(role) == repo_metadata[LatestFile(role)]

\* What the built repository serves: timestamp.json, and with
\* consistent_snapshot the versioned file of the version the parent declares.
ServedByRepository ==
    [timestamp |-> Persisted("timestamp"),
     snapshot |-> repo_metadata[VersionedFile(Persisted("timestamp").meta.version,
                                              "snapshot")],
     targets |-> repo_metadata[VersionedFile(Persisted("snapshot").meta.version,
                                             "targets")],
     root |-> NoDoc, republished |-> FALSE]

\* A client with an empty metadata_dir that pins the built root.
EmptyTrustState == [r \in Roles |-> NoDoc]
FreshClient == initialize(Persisted("root"), EmptyTrustState)

\* The parent file declares exactly the version, length and sha256 of the
\* bytes of the child file.
DeclaresExactly(parent, child) ==
    /\ Persisted(parent).meta.version = Persisted(child).version
    /\ Persisted(parent).meta.length = Len(to_json(Persisted(child)))
    /\ Persisted(parent).meta.hashes = Sha256(to_json(Persisted(child)))

\* C26: after a complete run of the builder snapshot.json declares exactly
\* the version, length and sha256 of the bytes in targets.json, and
\* timestamp.json those of snapshot.json; a client that pins the built root
\* over an empty TrustState and refreshes on the day of the build succeeds
\* and trusts exactly the documents in the directory.
C26_BuiltChainVerifies ==
    RunComplete =>
      /\ \A r \in Roles : IsDocument(Persisted(r))
      /\ DeclaresExactly("snapshot", "targets")
      /\ DeclaresExactly("timestamp", "snapshot")
      /\ FreshClient.result.ok
      /\ LET r == refresh_metadata(FreshClient.updater, FreshClient.dir,
                                   ServedByRepository, Today(run))
         IN  /\ r.result.ok
             /\ \A role \in Roles : r.dir[role] = Persisted(role)

\* C26 witness: a second run over the same directory has gone through and
\* the directory holds the four documents of that run.
C26_Witness ==
    /\ RunComplete
    /\ run = 2
    /\ \A r \in Roles : Persisted(r) = built[r]
    /\ DeclaresExactly("snapshot", "targets")
    /\ refresh_metadata(FreshClient.updater, FreshClient.dir,
                        ServedByRepository, Today(run)).result.ok

\* ------------------------------------------------------------ the built root
\* The root documents the builder has produced: the Metadata object of the
\* run and what root.json and the versioned root files hold.
ProducedRoots ==
    {d \in {built["root"]} \cup {repo_metadata[f] : f \in MetadataFiles} :
       IsDocument(d) /\ d.type = "root"}

\* The root d with the keys of one role taken out of its keys map.
WithoutKeysOf(d, role) == [d EXCEPT !.keys = @ \ d.roles[role].keyids]

SignedOnlyBy(d, role) == [d EXCEPT !.sigs = d.roles[role].keyids]

\* C28: every root the builder produces carries at least its own root
\* threshold of signatures by keys it lists for the root role, and the
\* bootstrap of a client with an empty TrustState accepts it as the trusted
\* root; the same root signed only by the key of the targets, snapshot or
\* timestamp role is refused as UntrustedRoot and no TrustState comes to be.
C28_BuiltRootSelfConsistent ==
    \A d \in ProducedRoots :
      /\ Cardinality(d.sigs \cap d.roles["root"].keyids \cap d.keys)
           >= d.roles["root"].threshold
      /\ LET i == initialize(d, EmptyTrustState)
         IN  /\ i.result.ok
             /\ i.dir = [EmptyTrustState EXCEPT !["root"] = d]
      /\ \A other \in OnlineRoles :
           LET i == initialize(SignedOnlyBy(d, other), EmptyTrustState)
           IN  /\ ~i.result.ok
               /\ i.result.error_type = "UntrustedRoot"
               /\ i.dir = EmptyTrustState

\* C28 witness: the first run has written root.json and its versioned copy,
\* signed by the root key of that run, and a client pinning that file has a
\* TrustState with it as the trusted root.
C28_Witness ==
    /\ run = 1
    /\ IsDocument(Persisted("root"))
    /\ repo_metadata[VersionedFile(1, "root")] = Persisted("root")
    /\ Persisted("root").sigs = {self_keys["root"]}
    /\ FreshClient.result.ok
    /\ FreshClient.dir["root"] = Persisted("root")

====
